---- MODULE Spec2Model ----
(***************************************************************************)
(* Terabits Browser Worker (src/src/index.js): the session registry, the   *)
(* idle reaper, the /run step executor with its buffered and streaming     *)
(* responses, and the direct-control endpoints, as a state machine.        *)
(*                                                                         *)
(* Node runs every handler on one event loop: a handler runs without       *)
(* interruption up to its next await of the automation engine (or of a     *)
(* timer), so each action below is one such uninterrupted stretch: the     *)
(* arrival of a request up to its first await, or the return of an awaited *)
(* call up to the next await or the response.                              *)
(***************************************************************************)
EXTENDS Integers, Sequences, FiniteSets, TLC

(* ---------------------------- bounds ---------------------------------- *)
MaxRequests == 3       \* requests received in one behaviour
MaxBrowsers == 2       \* browsers launched in one behaviour
MaxTime == 2           \* the clock runs 0..MaxTime
MaxLen == 2            \* longest accepted steps array drawn as input

(* ------------------------ program constants --------------------------- *)
SESSION_TTL_MS == 1    \* idle threshold, in clock ticks (env SESSION_TTL_MS)
MAX_STEPS == 15        \* steps.length > 15 is rejected

(* ----------------------------- values --------------------------------- *)
Absent == "undefined"                  \* a field the JSON body does not give
ClientIds == {"s1"}              \* session ids a client makes up
GenIds == <<"g1", "g2">>               \* the ids randomId() returns, in order
MaxGen == 1                            \* calls of randomId() in one behaviour
SessionIds == ClientIds \cup {GenIds[k] : k \in 1..Len(GenIds)}
Slots == {1, 2}                        \* requests in flight at the same time

NoSecret == "null"                     \* BROWSER_WORKER_SECRET unset or blank
Secrets == {NoSecret, "k"}
\* The Authorization header: absent, or a scheme prefix followed by a credential.
NoHeader == [prefix |-> Absent, cred |-> ""]
Headers == {NoHeader, [prefix |-> "Bearer ", cred |-> "k"],
            [prefix |-> "Bearer ", cred |-> "x"], [prefix |-> "", cred |-> "k"]}

(* ------------------------------ steps --------------------------------- *)
\* One entry of the steps array: JSON null, or an object with these fields.
\* delayType is typeof step.delay; delay is its value when it is a number.
Step(a, u, w, dt, d, sel) ==
  [null |-> FALSE, action |-> a, url |-> u, waitUntil |-> w,
   delayType |-> dt, delay |-> d, selector |-> sel]
NullStep ==
  [null |-> TRUE, action |-> Absent, url |-> Absent, waitUntil |-> Absent,
   delayType |-> Absent, delay |-> 0, selector |-> Absent]
Plain(a) == Step(a, Absent, Absent, Absent, 0, Absent)

StepShapes ==
  { NullStep,
    Plain(Absent),                                         \* {} : a snapshot
    Plain("hover"),                                        \* no such action
    Step("navigate", "u1", Absent, Absent, 0, Absent),
    Step("navigate", Absent, Absent, Absent, 0, Absent),   \* no url
    Step("navigate", "u1", "bogus", Absent, 0, Absent),    \* bad waitUntil
    Step("click", Absent, Absent, Absent, 0, "#a"),
    Plain("click"),                                        \* no selector
    Plain("fill"),                                         \* no selector
    Step("wait", Absent, Absent, "number", 5, Absent),
    Step("wait", Absent, Absent, "number", 0, Absent),
    Step("wait", Absent, Absent, Absent, 0, "#a"),
    Plain("wait") }                                        \* neither

\* One shape of each kind: a null entry, no action to dispatch, an engine
\* action, a validation error, a timer.
CoreShapes ==
  { NullStep,
    Plain(Absent),
    Step("navigate", "u1", Absent, Absent, 0, Absent),
    Plain("click"),
    Step("wait", Absent, Absent, "number", 5, Absent) }

\* The lists of 1..n entries over S.
Lists(S, n) == UNION {[1..k -> S] : k \in 1..n}
\* A list longer than the limit: only its length is ever read.
Oversize == [k \in 1..(MAX_STEPS + 1) |-> Plain(Absent)]

(* --------------------------- interact bodies -------------------------- *)
\* The body of POST /session/:id/interact: the action, typeof x, y, text and
\* key, and the url with its typeof.
Body(a, xt, yt, tt, kt, ut, u) ==
  [action |-> a, x |-> xt, y |-> yt, text |-> tt, key |-> kt, urlType |-> ut, url |-> u]
NoBody == Body(Absent, Absent, Absent, Absent, Absent, Absent, Absent)
\* Bodies of every action, with its required fields given, missing and
\* ill-typed, and bodies with an unknown action and with none.
Bodies ==
  { Body("click", "number", "number", Absent, Absent, Absent, Absent),
    Body("click", "number", Absent, Absent, Absent, Absent, Absent),
    Body("click", Absent, "number", Absent, Absent, Absent, Absent),
    Body("click", "string", "number", Absent, Absent, Absent, Absent),
    Body("scroll", "number", "number", Absent, Absent, Absent, Absent),
    Body("scroll", Absent, Absent, Absent, Absent, Absent, Absent),
    Body("type", Absent, Absent, "string", Absent, Absent, Absent),
    Body("type", Absent, Absent, Absent, Absent, Absent, Absent),
    Body("type", Absent, Absent, "number", Absent, Absent, Absent),
    Body("key", Absent, Absent, Absent, "string", Absent, Absent),
    Body("key", Absent, Absent, Absent, Absent, Absent, Absent),
    Body("navigate", Absent, Absent, Absent, Absent, "string", "u1"),
    Body("navigate", Absent, Absent, Absent, Absent, Absent, Absent),
    Body("navigate", Absent, Absent, Absent, Absent, "number", Absent),
    Body("hover", "number", "number", "string", "string", "string", "u1"),
    NoBody }

(* ------------------------- pure functions ----------------------------- *)
\* interactPlan without the typeof checks of the required fields.
interactPlan_NoFieldCheck(b) ==
  IF b.action \in {"click", "type", "key", "navigate", "scroll"}
  THEN [do |-> "engine", msg |-> ""]
  ELSE [do |-> "reject", msg |-> "Unknown action"]
\* What /interact does with a body before its first await: "engine" (the
\* action is dispatched) or "reject" (a 400, with its message).
interactPlan(b) ==
  CASE b.action = "click" ->
         IF b.x # "number" \/ b.y # "number"
         THEN [do |-> "reject", msg |-> "x and y required for click"]
         ELSE [do |-> "engine", msg |-> ""]
    [] b.action = "type" ->
         IF b.text # "string"
         THEN [do |-> "reject", msg |-> "text required for type"]
         ELSE [do |-> "engine", msg |-> ""]
    [] b.action = "key" ->
         IF b.key # "string"
         THEN [do |-> "reject", msg |-> "key required for key action"]
         ELSE [do |-> "engine", msg |-> ""]
    [] b.action = "navigate" ->
         IF b.urlType # "string"
         THEN [do |-> "reject", msg |-> "url required for navigate"]
         ELSE [do |-> "engine", msg |-> ""]
    [] b.action = "scroll" ->
         IF b.x # "number" \/ b.y # "number"
         THEN [do |-> "reject", msg |-> "x and y (delta) required for scroll"]
         ELSE [do |-> "engine", msg |-> ""]
    [] OTHER -> [do |-> "reject", msg |-> "Unknown action"]

\* tokenOf with the scheme check left out: any header's credential is the token.
tokenOf_AnyScheme(header) == header.cred
\* checkAuth: the token is what follows "Bearer ", or null; it must be SECRET.
tokenOf(header) == IF header.prefix = "Bearer " THEN header.cred ELSE "null"
checkAuth(secret, header) == secret = NoSecret \/ tokenOf(header) = secret

\* StepsTooMany with the limit off by one.
StepsTooMany_OffByOne(steps) == Len(steps) > MAX_STEPS + 1
\* The two size checks of /run, in the code's order.
StepsMissing(isArray, steps) == ~isArray \/ Len(steps) = 0
StepsTooMany(steps) == Len(steps) > MAX_STEPS

\* const action = step.action || 'snapshot'
actionOf(step) == IF step.action = Absent THEN "snapshot" ELSE step.action
\* const url = step.url || 'about:blank'
urlOf(step) == IF step.url = Absent THEN "about:blank" ELSE step.url
\* const waitUntil = step.waitUntil || 'load'
waitUntilOf(step) == IF step.waitUntil = Absent THEN "load" ELSE step.waitUntil
WaitUntilValues == {"domcontentloaded", "load", "networkidle"}

\* What a step does before its first await: "throw" (a validation error, with
\* its message), "engine" (an action is dispatched), "delay" (a timer) or
\* "shot" (nothing to dispatch: the screenshot is next).
stepPlan(step) ==
  LET action == actionOf(step) IN
  CASE action = "navigate" ->
         IF waitUntilOf(step) \notin WaitUntilValues
         THEN [do |-> "throw", msg |-> "waitUntil must be domcontentloaded, load, or networkidle"]
         ELSE [do |-> "engine", msg |-> ""]
    [] action = "wait" ->
         IF step.delayType = "number" /\ step.delay > 0
         THEN [do |-> "delay", msg |-> ""]
         ELSE IF step.selector # Absent THEN [do |-> "engine", msg |-> ""]
         ELSE IF step.delayType # "number"
         THEN [do |-> "throw", msg |-> "wait action requires delay (ms) and/or selector"]
         ELSE [do |-> "shot", msg |-> ""]
    [] action = "click" ->
         IF step.selector = Absent
         THEN [do |-> "throw", msg |-> "selector required for click"]
         ELSE [do |-> "engine", msg |-> ""]
    [] action = "fill" ->
         IF step.selector = Absent
         THEN [do |-> "throw", msg |-> "selector required for fill"]
         ELSE [do |-> "engine", msg |-> ""]
    [] OTHER -> [do |-> "shot", msg |-> ""]

(* ------------------------------ state --------------------------------- *)
VARIABLES
  SECRET,      \* the configured shared secret, or NoSecret
  sessions,    \* the registry: session id -> entry (browser 0: no entry)
  browsers,    \* every browser launched so far, by handle 1..Len(browsers)
  now,         \* Date.now()
  sweptAt,     \* when the reaper last swept (-1: not yet)
  req,         \* per slot: the request being handled, or its response
  received,    \* requests received so far
  genCount     \* calls of randomId() so far

vars == <<SECRET, sessions, browsers, now, sweptAt, req, received, genCount>>

NoEntry == [browser |-> 0, lastUsedAt |-> 0]
Has(id) == sessions[id].browser # 0
Registered == {id \in SessionIds : Has(id)}
Handles == 1..Len(browsers)

\* A slot with no request. The fields are the handler's locals (steps, i,
\* results, error, resolvedSessionId, page ...) and what it has sent so far.
\* seq is the request's number in the order of receipt.
\* out is what the handler wrote to the stream; gone tells that the client has
\* disconnected, after which nothing written reaches it.
IdleReq ==
  [kind |-> "none", seq |-> 0, pc |-> "idle", auth |-> NoHeader, sid |-> Absent,
   stream |-> FALSE, stepsIsArray |-> TRUE, steps |-> <<>>, body |-> NoBody,
   i |-> 0, results |-> <<>>, error |-> Absent, shot |-> FALSE,
   resolvedSessionId |-> Absent, newId |-> Absent, page |-> 0,
   headersSent |-> FALSE, out |-> <<>>, ended |-> FALSE, gone |-> FALSE,
   status |-> 0, success |-> FALSE, respError |-> Absent, respSid |-> Absent,
   respUrl |-> Absent]

Init ==
  /\ SECRET \in Secrets
  /\ sessions = [id \in SessionIds |-> NoEntry]
  /\ browsers = <<>>
  /\ now = 0
  /\ sweptAt = -1
  /\ req = [r \in Slots |-> IdleReq]
  /\ received = 0
  /\ genCount = 0

(* --------------------------- the registry ----------------------------- *)
\* closeSession that forgets sessions.delete.
sessionsAfterClose_Keep(ids) == sessions
\* closeSession's effect on the registry: the entry, if any, is deleted.
sessionsAfterClose(ids) ==
  [id \in SessionIds |-> IF id \in ids THEN NoEntry ELSE sessions[id]]
\* closeSession that forgets entry.browser.close().
browsersAfterClose_None(ids) == browsers
\* closeSession's effect on the engine: entry.browser.close() for each entry.
browsersAfterClose(ids) ==
  LET hs == {sessions[id].browser : id \in ids \cap Registered} IN
  [h \in Handles |->
     IF h \in hs THEN [browsers[h] EXCEPT !.open = FALSE, !.closes = @ + 1]
     ELSE browsers[h]]

closeSession(id) ==
  /\ sessions' = sessionsAfterClose({id})
  /\ browsers' = browsersAfterClose({id})

\* Expired with >= in place of >.
Expired_Early(entry, t) == t - entry.lastUsedAt >= SESSION_TTL_MS
\* Expired with the threshold one tick late.
Expired_Late(entry, t) == t - entry.lastUsedAt > SESSION_TTL_MS + 1
\* now - entry.lastUsedAt > SESSION_TTL_MS
Expired(entry, t) == t - entry.lastUsedAt > SESSION_TTL_MS

\* The sweep closes every expired entry; deleting from a Map while iterating
\* it visits every other entry still.
cleanupExpiredSessions ==
  LET ids == {id \in Registered : Expired(sessions[id], now)} IN
  /\ sessions' = sessionsAfterClose(ids)
  /\ browsers' = browsersAfterClose(ids)
  /\ sweptAt' = now
  /\ UNCHANGED <<SECRET, now, req, received, genCount>>

\* Time passes.
Tick ==
  /\ now < MaxTime
  /\ now' = now + 1
  /\ UNCHANGED <<SECRET, sweptAt, sessions, browsers, req, received, genCount>>

(* ------------------------- the /run handler --------------------------- *)
TypeErrorMsg == "Cannot read properties of null (reading 'action')"

\* The payload of the step just executed (lines 276-283).
payload(q) ==
  [type |-> "step", stepIndex |-> q.i, action |-> actionOf(q.steps[q.i + 1]),
   screenshot |-> q.shot, success |-> q.error = Absent, error |-> q.error]

\* emitStep that, when streaming, writes the payload without pushing it.
emitStep_StreamOnly(q) ==
  IF q.stream /\ q.headersSent THEN [q EXCEPT !.out = Append(@, payload(q))]
  ELSE [q EXCEPT !.results = Append(@, payload(q))]
\* results.push(payload), then the write if the stream is open (lines 204-211).
emitStep(q) ==
  [q EXCEPT !.results = Append(@, payload(q)),
            !.out = IF q.stream /\ q.headersSent THEN Append(@, payload(q)) ELSE @]

doneMsg(q, ok, err) ==
  [type |-> "done", success |-> ok, error |-> err, steps |-> q.results,
   sessionId |-> q.resolvedSessionId]

\* After the loop (lines 287-293).
runSuccess(q) ==
  IF q.stream
  THEN [q EXCEPT !.pc = "done", !.status = 200, !.ended = TRUE,
                 !.out = Append(@, doneMsg(q, TRUE, Absent))]
  ELSE [q EXCEPT !.pc = "done", !.status = 200, !.success = TRUE,
                 !.respSid = q.resolvedSessionId]

\* runCatch that answers with JSON even when the stream is open.
runCatch_AlwaysJson(q, msg) ==
  [q EXCEPT !.pc = "done", !.status = 500, !.success = FALSE,
            !.respError = msg, !.respSid = q.resolvedSessionId]
\* The outer catch (lines 294-312).
runCatch(q, msg) ==
  IF q.stream /\ q.headersSent
  THEN [q EXCEPT !.pc = "done", !.status = 200, !.ended = TRUE,
                 !.out = Append(@, doneMsg(q, FALSE, msg))]
  ELSE [q EXCEPT !.pc = "done", !.status = 500, !.success = FALSE,
                 !.respError = msg, !.respSid = q.resolvedSessionId]

\* startStep that gives the run up once the client is gone.
startStep_CancelWhenGone(q) ==
  LET step == q.steps[q.i + 1]
      q0 == [q EXCEPT !.shot = FALSE, !.error = Absent]
  IN IF q.gone \/ step.null THEN runCatch(q, "aborted")
     ELSE LET plan == stepPlan(step) IN
          CASE plan.do = "throw" -> [q0 EXCEPT !.error = plan.msg, !.pc = "errshot"]
            [] plan.do = "engine" -> [q0 EXCEPT !.pc = "act"]
            [] plan.do = "delay" -> [q0 EXCEPT !.pc = "delay"]
            [] OTHER -> [q0 EXCEPT !.pc = "shot"]
\* Step i from the top of the loop body to its first await.
startStep(q) ==
  LET step == q.steps[q.i + 1]
      q0 == [q EXCEPT !.shot = FALSE, !.error = Absent]
  IN IF step.null THEN runCatch(q, TypeErrorMsg)
     ELSE LET plan == stepPlan(step) IN
          CASE plan.do = "throw" -> [q0 EXCEPT !.error = plan.msg, !.pc = "errshot"]
            [] plan.do = "engine" -> [q0 EXCEPT !.pc = "act"]
            [] plan.do = "delay" -> [q0 EXCEPT !.pc = "delay"]
            [] OTHER -> [q0 EXCEPT !.pc = "shot"]

\* nextStep that leaves the loop after a failed step.
nextStep_StopOnFailure(q) ==
  LET q1 == [emitStep(q) EXCEPT !.i = @ + 1] IN
  IF q1.i < Len(q1.steps) /\ q.error = Absent THEN startStep(q1) ELSE runSuccess(q1)
\* From emitStep to the next await or the response.
nextStep(q) ==
  LET q1 == [emitStep(q) EXCEPT !.i = @ + 1] IN
  IF q1.i < Len(q1.steps) THEN startStep(q1) ELSE runSuccess(q1)

\* A slot takes a new request once its last response is sent.
\* Slots are interchangeable: a request takes the first free one.
Free(r) == req[r].pc \in {"idle", "done"}
CanReceive(r) ==
  Free(r) /\ received < MaxRequests /\ \A r2 \in Slots : r2 < r => ~Free(r2)

unauthorized(q) ==
  [q EXCEPT !.pc = "done", !.status = 401, !.success = FALSE,
            !.respError = "Unauthorized"]
badRequest(q, msg) ==
  [q EXCEPT !.pc = "done", !.status = 400, !.success = FALSE, !.respError = msg]

\* The ids a client can name: the ones it makes up and the ones it was given.
KnownIds == ClientIds \cup {GenIds[k] : k \in 1..genCount}

\* The step lists a /run is given: every shape alone, every list of up to
\* MaxLen core shapes, the empty list and one list over the limit.
StepLists == Lists(StepShapes, 1) \cup Lists(CoreShapes, MaxLen) \cup {<<>>, Oversize}

\* getOrCreateSession that never finds the entry.
Existing_Never(sid) == FALSE
\* const existing = requestedId ? sessions.get(requestedId) : null
Existing(sid) == sid # Absent /\ Has(sid)

\* POST /run arrives: checkAuth, the size checks, the stream headers and
\* getOrCreateSession up to its first await (lines 186-222, 91-99, 68-69).
Run(r, header, sid, stream, isArray, steps) ==
  /\ CanReceive(r)
  /\ received' = received + 1
  /\ LET q0 == [IdleReq EXCEPT !.kind = "run", !.seq = received + 1, !.auth = header, !.sid = sid,
                               !.stream = stream, !.stepsIsArray = isArray,
                               !.steps = steps]
         q1 == [q0 EXCEPT !.headersSent = stream]
     IN IF ~checkAuth(SECRET, header)
        THEN /\ req' = [req EXCEPT ![r] = unauthorized(q0)]
             /\ UNCHANGED <<SECRET, sweptAt, sessions, browsers, now, genCount>>
        ELSE IF StepsMissing(isArray, steps)
        THEN /\ req' = [req EXCEPT ![r] = badRequest(q0, "steps array required (1-15 items)")]
             /\ UNCHANGED <<SECRET, sweptAt, sessions, browsers, now, genCount>>
        ELSE IF StepsTooMany(steps)
        THEN /\ req' = [req EXCEPT ![r] = badRequest(q0, "max 15 steps")]
             /\ UNCHANGED <<SECRET, sweptAt, sessions, browsers, now, genCount>>
        ELSE IF Existing(sid)
        THEN \* getOrCreateSession: the entry exists and is refreshed
             /\ sessions' = [sessions EXCEPT ![sid].lastUsedAt = now]
             /\ req' = [req EXCEPT ![r] =
                          startStep([q1 EXCEPT !.resolvedSessionId = sid,
                                               !.page = sessions[sid].browser])]
             /\ UNCHANGED <<SECRET, sweptAt, browsers, now, genCount>>
        ELSE IF sid # Absent
        THEN \* createNewSession(requestedId): chromium.launch() is awaited
             /\ req' = [req EXCEPT ![r] = [q1 EXCEPT !.newId = sid, !.pc = "launch"]]
             /\ UNCHANGED <<SECRET, sweptAt, sessions, browsers, now, genCount>>
        ELSE \* createNewSession(randomId())
             /\ genCount < MaxGen
             /\ genCount' = genCount + 1
             /\ req' = [req EXCEPT ![r] =
                          [q1 EXCEPT !.newId = GenIds[genCount + 1], !.pc = "launch"]]
             /\ UNCHANGED <<SECRET, sweptAt, sessions, browsers, now>>

NewBrowser == [open |-> TRUE, closes |-> 0, url |-> "about:blank"]

\* chromium.launch() returns (line 69): a browser, or an error.
LaunchReturns(r, ok) ==
  /\ req[r].pc = "launch"
  /\ IF ok
     THEN /\ Len(browsers) < MaxBrowsers
          /\ browsers' = Append(browsers, NewBrowser)
          /\ req' = [req EXCEPT ![r].page = Len(browsers) + 1, ![r].pc = "context"]
     ELSE /\ req' = [req EXCEPT ![r] = runCatch(@, "launch failed")]
          /\ UNCHANGED browsers
  /\ UNCHANGED <<SECRET, sweptAt, sessions, now, received, genCount>>

\* createNewSession that registers the entry although newContext failed.
ContextReturns_RegistersOnFailure(r, ok) ==
  /\ req[r].pc = "context"
  /\ req' = [req EXCEPT ![r] = IF ok THEN [@ EXCEPT !.pc = "newpage"]
                               ELSE runCatch(@, "newContext failed")]
  /\ sessions' = IF ok THEN sessions
                 ELSE [sessions EXCEPT ![req[r].newId] =
                         [browser |-> req[r].page, lastUsedAt |-> now]]
  /\ UNCHANGED <<SECRET, sweptAt, browsers, now, received, genCount>>
\* browser.newContext() returns (line 78).
ContextReturns(r, ok) ==
  /\ req[r].pc = "context"
  /\ req' = [req EXCEPT ![r] = IF ok THEN [@ EXCEPT !.pc = "newpage"]
                               ELSE runCatch(@, "newContext failed")]
  /\ UNCHANGED <<SECRET, sweptAt, sessions, browsers, now, received, genCount>>

\* context.newPage() returns (line 84): the entry is registered (line 86) and
\* the step loop starts.
PageReturns(r, ok) ==
  /\ req[r].pc = "newpage"
  /\ IF ok
     THEN /\ sessions' = [sessions EXCEPT ![req[r].newId] =
                            [browser |-> req[r].page, lastUsedAt |-> now]]
          /\ req' = [req EXCEPT ![r] =
                       startStep([@ EXCEPT !.resolvedSessionId = req[r].newId])]
     ELSE /\ req' = [req EXCEPT ![r] = runCatch(@, "newPage failed")]
          /\ UNCHANGED sessions
  /\ UNCHANGED <<SECRET, sweptAt, browsers, now, received, genCount>>

\* An engine that goes on answering after browser.close().
CanSucceed_Always(h) == TRUE
\* An engine call on a closed browser throws; on an open one it may.
CanSucceed(h) == browsers[h].open

\* The step's action (goto, click, fill, waitForSelector) returns.
ActionReturns(r, ok) ==
  /\ req[r].pc = "act"
  /\ LET q == req[r]
         step == q.steps[q.i + 1]
     IN IF ok
        THEN /\ CanSucceed(q.page)
             /\ browsers' = IF actionOf(step) = "navigate"
                            THEN [browsers EXCEPT ![q.page].url = urlOf(step)]
                            ELSE browsers
             /\ req' = [req EXCEPT ![r].pc = "shot"]
        ELSE /\ req' = [req EXCEPT ![r].error = "engine error", ![r].pc = "errshot"]
             /\ UNCHANGED browsers
  /\ UNCHANGED <<SECRET, sweptAt, sessions, now, received, genCount>>

\* The wait step's timer fires (line 244); the selector, if any, is next.
DelayReturns(r) ==
  /\ req[r].pc = "delay"
  /\ LET step == req[r].steps[req[r].i + 1] IN
     req' = [req EXCEPT ![r].pc = IF step.selector # Absent THEN "act" ELSE "shot"]
  /\ UNCHANGED <<SECRET, sweptAt, sessions, browsers, now, received, genCount>>

\* The step's screenshot returns (line 262).
ShotReturns(r, ok) ==
  /\ req[r].pc = "shot"
  /\ IF ok
     THEN /\ CanSucceed(req[r].page)
          /\ req' = [req EXCEPT ![r] = nextStep([@ EXCEPT !.shot = TRUE])]
     ELSE req' = [req EXCEPT ![r].error = "screenshot failed", ![r].pc = "errshot"]
  /\ UNCHANGED <<SECRET, sweptAt, sessions, browsers, now, received, genCount>>

\* ErrShotReturns that reports the screenshot's error in place of the step's.
ErrShotReturns_Masks(r, ok) ==
  /\ req[r].pc = "errshot"
  /\ IF ok
     THEN /\ CanSucceed(req[r].page)
          /\ req' = [req EXCEPT ![r] = nextStep([@ EXCEPT !.shot = TRUE])]
     ELSE req' = [req EXCEPT ![r] = nextStep([@ EXCEPT !.error = "screenshot failed"])]
  /\ UNCHANGED <<SECRET, sweptAt, sessions, browsers, now, received, genCount>>
\* The screenshot taken in the catch block returns (line 271); its own error
\* is swallowed.
ErrShotReturns(r, ok) ==
  /\ req[r].pc = "errshot"
  /\ IF ok
     THEN /\ CanSucceed(req[r].page)
          /\ req' = [req EXCEPT ![r] = nextStep([@ EXCEPT !.shot = TRUE])]
     ELSE req' = [req EXCEPT ![r] = nextStep(@)]
  /\ UNCHANGED <<SECRET, sweptAt, sessions, browsers, now, received, genCount>>

(* ------------------------ DELETE /session/:id ------------------------- *)
Delete(r, header, sid) ==
  /\ CanReceive(r)
  /\ received' = received + 1
  /\ LET q0 == [IdleReq EXCEPT !.kind = "delete", !.seq = received + 1, !.auth = header, !.sid = sid] IN
     IF ~checkAuth(SECRET, header)
     THEN /\ req' = [req EXCEPT ![r] = unauthorized(q0)]
          /\ UNCHANGED <<sessions, browsers>>
     ELSE /\ closeSession(sid)
          /\ req' = [req EXCEPT ![r] = [q0 EXCEPT !.pc = "done", !.status = 200,
                                                  !.success = TRUE]]
  /\ UNCHANGED <<SECRET, sweptAt, now, genCount>>

(* ----------------------- the direct-control surface ------------------- *)
notFound(q) ==
  [q EXCEPT !.pc = "done", !.status = 404, !.success = FALSE,
            !.respError = "Session not found"]
serverError(q, msg) ==
  [q EXCEPT !.pc = "done", !.status = 500, !.success = FALSE, !.respError = msg]

\* GET /session/:id/screenshot arrives (lines 319-325).
Screenshot(r, header, sid) ==
  /\ CanReceive(r)
  /\ received' = received + 1
  /\ LET q0 == [IdleReq EXCEPT !.kind = "screenshot", !.seq = received + 1, !.auth = header, !.sid = sid] IN
     req' = [req EXCEPT ![r] =
               IF ~checkAuth(SECRET, header) THEN unauthorized(q0)
               ELSE IF ~Has(sid) THEN notFound(q0)
               ELSE [q0 EXCEPT !.page = sessions[sid].browser, !.pc = "dshot"]]
  /\ UNCHANGED <<SECRET, sweptAt, sessions, browsers, now, genCount>>

\* GET /session/:id/info arrives (lines 339-346): page.url() is read at once,
\* page.title() is awaited.
Info(r, header, sid) ==
  /\ CanReceive(r)
  /\ received' = received + 1
  /\ LET q0 == [IdleReq EXCEPT !.kind = "info", !.seq = received + 1, !.auth = header, !.sid = sid] IN
     req' = [req EXCEPT ![r] =
               IF ~checkAuth(SECRET, header) THEN unauthorized(q0)
               ELSE IF ~Has(sid) THEN notFound(q0)
               ELSE [q0 EXCEPT !.page = sessions[sid].browser, !.pc = "dtitle",
                               !.respUrl = browsers[sessions[sid].browser].url]]
  /\ UNCHANGED <<SECRET, sweptAt, sessions, browsers, now, genCount>>

\* POST /session/:id/interact arrives (lines 358-396).
Interact(r, header, sid, body) ==
  /\ CanReceive(r)
  /\ received' = received + 1
  /\ LET q0 == [IdleReq EXCEPT !.kind = "interact", !.seq = received + 1, !.auth = header, !.sid = sid,
                               !.body = body]
     IN IF ~checkAuth(SECRET, header)
        THEN /\ req' = [req EXCEPT ![r] = unauthorized(q0)]
             /\ UNCHANGED sessions
        ELSE IF ~Has(sid)
        THEN /\ req' = [req EXCEPT ![r] = notFound(q0)]
             /\ UNCHANGED sessions
        ELSE /\ sessions' = [sessions EXCEPT ![sid].lastUsedAt = now]
             /\ req' = [req EXCEPT ![r] =
                          IF interactPlan(body).do = "reject"
                          THEN badRequest(q0, interactPlan(body).msg)
                          ELSE [q0 EXCEPT !.page = sessions[sid].browser, !.pc = "iact"]]
  /\ UNCHANGED <<SECRET, sweptAt, browsers, now, genCount>>

\* The interaction (mouse, keyboard or goto) returns (lines 373-393).
InteractReturns(r, ok) ==
  /\ req[r].pc = "iact"
  /\ IF ok
     THEN /\ CanSucceed(req[r].page)
          /\ browsers' = IF req[r].body.action = "navigate"
                         THEN [browsers EXCEPT ![req[r].page].url = req[r].body.url]
                         ELSE browsers
          /\ req' = [req EXCEPT ![r].pc = "dshot"]
     ELSE /\ req' = [req EXCEPT ![r] = serverError(@, "engine error")]
          /\ UNCHANGED browsers
  /\ UNCHANGED <<SECRET, sweptAt, sessions, now, received, genCount>>

\* page.screenshot() returns in /screenshot (line 325) or /interact (line 398);
\* page.url() is read and page.title() awaited.
DirectShotReturns(r, ok) ==
  /\ req[r].pc = "dshot"
  /\ IF ok
     THEN /\ CanSucceed(req[r].page)
          /\ req' = [req EXCEPT ![r].shot = TRUE, ![r].pc = "dtitle",
                                ![r].respUrl = browsers[req[r].page].url]
     ELSE req' = [req EXCEPT ![r] = serverError(@, "screenshot failed")]
  /\ UNCHANGED <<SECRET, sweptAt, sessions, browsers, now, received, genCount>>

\* page.title() returns; its error is caught. The response is sent.
TitleReturns(r) ==
  /\ req[r].pc = "dtitle"
  /\ req' = [req EXCEPT ![r].pc = "done", ![r].status = 200, ![r].success = TRUE,
                        ![r].respSid = req[r].sid]
  /\ UNCHANGED <<SECRET, sweptAt, sessions, browsers, now, received, genCount>>

(* ------------------------ the client goes away ------------------------ *)
\* The client of a streaming /run disconnects while the run is in flight. The
\* handler registers no 'close' listener and never reads the connection's
\* state (lines 186-313); res.write and res.end on a closed connection do not
\* throw.
Disconnect(r) ==
  /\ req[r].kind = "run" /\ req[r].stream /\ ~req[r].gone
  /\ req[r].pc \notin {"idle", "done"}
  /\ req' = [req EXCEPT ![r].gone = TRUE]
  /\ UNCHANGED <<SECRET, sweptAt, sessions, browsers, now, received, genCount>>

(* --------------------------- specifications -------------------------- *)
\* An awaited call of request r returns.
RunReturns(r) ==
  \/ \E ok \in BOOLEAN : LaunchReturns(r, ok)
  \/ \E ok \in BOOLEAN : ContextReturns(r, ok)
  \/ \E ok \in BOOLEAN : PageReturns(r, ok)
  \/ \E ok \in BOOLEAN : ActionReturns(r, ok)
  \/ DelayReturns(r)
  \/ \E ok \in BOOLEAN : ShotReturns(r, ok)
  \/ \E ok \in BOOLEAN : ErrShotReturns(r, ok)
Returns(r) ==
  \/ RunReturns(r)
  \/ \E ok \in BOOLEAN : InteractReturns(r, ok)
  \/ \E ok \in BOOLEAN : DirectShotReturns(r, ok)
  \/ TitleReturns(r)

\* Short step lists and bodies for the specifications that are about the
\* registry rather than about the steps.
FewLists ==
  { <<Plain(Absent)>>,
    <<Step("navigate", "u1", Absent, Absent, 0, Absent)>>,
    <<Step("wait", Absent, Absent, "number", 5, Absent), Plain(Absent)>> }
FewBodies ==
  { Body("click", "number", "number", Absent, Absent, Absent, Absent),
    Body("navigate", Absent, Absent, Absent, Absent, "string", "u1"),
    Body("hover", Absent, Absent, Absent, Absent, Absent, Absent) }

InitOpen == Init /\ SECRET = NoSecret

\* Spec: the registry over time. One request at a time, the reaper and the
\* clock, with the gate open.
Next ==
  \/ \E sid \in KnownIds \cup {Absent}, steps \in FewLists :
       Run(1, NoHeader, sid, FALSE, TRUE, steps)
  \/ \E sid \in KnownIds : Delete(1, NoHeader, sid)
  \/ \E sid \in KnownIds : Screenshot(1, NoHeader, sid)
  \/ \E sid \in KnownIds : Info(1, NoHeader, sid)
  \/ \E sid \in KnownIds, body \in FewBodies : Interact(1, NoHeader, sid, body)
  \/ Returns(1)
  \/ cleanupExpiredSessions
  \/ Tick

Spec == InitOpen /\ [][Next]_vars

\* SpecRace: two requests in flight at the same time, the clock standing still.
NextRace ==
  \/ \E r \in Slots, sid \in KnownIds \cup {Absent}, steps \in FewLists :
       Run(r, NoHeader, sid, FALSE, TRUE, steps)
  \/ \E r \in Slots, sid \in KnownIds : Delete(r, NoHeader, sid)
  \/ \E r \in Slots, sid \in KnownIds : Screenshot(r, NoHeader, sid)
  \/ \E r \in Slots, sid \in KnownIds : Info(r, NoHeader, sid)
  \/ \E r \in Slots, sid \in KnownIds, body \in FewBodies : Interact(r, NoHeader, sid, body)
  \/ \E r \in Slots : Returns(r)

SpecRace == InitOpen /\ [][NextRace]_vars

\* SpecSteps: the step executor and the response emitter. One /run at a time
\* over every step list, buffered and streaming.
NextSteps ==
  \/ \E stream \in BOOLEAN, steps \in StepLists : Run(1, NoHeader, "s1", stream, TRUE, steps)
  \/ \E stream \in BOOLEAN : Run(1, NoHeader, "s1", stream, FALSE, <<>>)
  \/ RunReturns(1)

SpecSteps == InitOpen /\ [][NextSteps]_vars

\* SpecStream: runs over several sessions, buffered and streaming, with
\* clients that disconnect and sessions that are closed between runs.
NextStream ==
  \/ \E sid \in KnownIds \cup {Absent}, stream \in BOOLEAN, steps \in FewLists :
       Run(1, NoHeader, sid, stream, TRUE, steps)
  \/ \E sid \in KnownIds : Delete(1, NoHeader, sid)
  \/ RunReturns(1)
  \/ Disconnect(1)

SpecStream == InitOpen /\ [][NextStream]_vars

\* Every awaited call of the engine returns or times out, and a timer fires.
SpecStreamFair == SpecStream /\ WF_vars(RunReturns(1))

\* SpecInteract: the interact endpoint over every body, on a session that is
\* created, used and closed.
NextInteract ==
  \/ \E steps \in FewLists : Run(1, NoHeader, "s1", FALSE, TRUE, steps)
  \/ Delete(1, NoHeader, "s1")
  \/ \E body \in Bodies : Interact(1, NoHeader, "s1", body)
  \/ Returns(1)

SpecInteract == InitOpen /\ [][NextInteract]_vars

\* SpecClose: runs on one session id while DELETE requests and the reaper
\* close it, two requests in flight at the same time.
NextClose ==
  \/ \E r \in Slots, steps \in FewLists : Run(r, NoHeader, "s1", FALSE, TRUE, steps)
  \/ \E r \in Slots : Delete(r, NoHeader, "s1")
  \/ \E r \in Slots : RunReturns(r)
  \/ cleanupExpiredSessions
  \/ Tick

SpecClose == InitOpen /\ [][NextClose]_vars

\* SpecAuth: the auth gate. Every endpoint under every header, with and
\* without a configured secret.
NextAuth ==
  \/ \E header \in Headers, sid \in KnownIds \cup {Absent} :
       \E steps \in FewLists : Run(1, header, sid, FALSE, TRUE, steps)
  \/ \E header \in Headers, sid \in KnownIds : Delete(1, header, sid)
  \/ \E header \in Headers, sid \in KnownIds : Screenshot(1, header, sid)
  \/ \E header \in Headers, sid \in KnownIds : Info(1, header, sid)
  \/ \E header \in Headers, sid \in KnownIds, body \in FewBodies :
       Interact(1, header, sid, body)
  \/ Returns(1)

SpecAuth == Init /\ [][NextAuth]_vars

(* ============================== claims ================================ *)
IsRun(r) == req[r].kind = "run"
Ended(r) == req[r].pc = "done"
\* Between its arrival and its response.
InFlight(r) == req[r].pc \notin {"idle", "done"}
\* The session request r has resolved, if any: the id /run got from
\* getOrCreateSession, or the id a direct-control call looked up.
Resolved(r) ==
  IF IsRun(r) THEN req[r].resolvedSessionId
  ELSE IF req[r].page # 0 THEN req[r].sid ELSE Absent
\* The request that arrives in this step takes slot r.
Arrives(r) == received' = received + 1 /\ CanReceive(r)

\* C1: a /run of N steps whose session is resolved answers with exactly N
\* results, result k carrying stepIndex k and the action of input step k.
C1_ResultsMirrorSteps ==
  \A r \in Slots :
    (IsRun(r) /\ Ended(r) /\ req[r].resolvedSessionId # Absent) =>
      /\ Len(req[r].results) = Len(req[r].steps)
      /\ \A k \in 1..Len(req[r].results) :
           /\ req[r].results[k].stepIndex = k - 1
           /\ req[r].results[k].action = actionOf(req[r].steps[k])

\* C2: while a request is in flight against session S, between resolving S and
\* its response, no reaper sweep closes S or removes it from the registry.
C2_NoReapInFlight ==
  [][cleanupExpiredSessions =>
       \A r \in Slots, id \in SessionIds :
         (InFlight(r) /\ Resolved(r) = id /\ sessions[id].browser = req[r].page)
           => (sessions'[id] = sessions[id] /\ browsers'[req[r].page].open)]_vars

\* C3: at most one in-flight operation uses a given session's page handle.
C3_OneUserPerPage ==
  \A r1, r2 \in Slots :
    (r1 # r2 /\ InFlight(r1) /\ InFlight(r2) /\ Resolved(r1) # Absent
       /\ Resolved(r2) # Absent)
      => req[r1].page # req[r2].page

\* C4: a browser is live (launched and not closed) if and only if it is the
\* handle of a session in the registry. Stated for the handles that no
\* createNewSession call still in progress is about to register.
C4_HandleLiveIffRegistered ==
  LET creating == {req[r].page : r \in {x \in Slots : req[x].pc \in {"context", "newpage"}}}
  IN \A h \in Handles \ creating :
       browsers[h].open <=> (\E id \in Registered : sessions[id].browser = h)

\* C5: a /run whose steps value is not an array, is empty or has more than 15
\* entries is answered 400 (once past the auth gate) before any session is
\* looked up, refreshed or created: the registry and the browsers are unchanged.
C5_BadStepsRejectedFirst ==
  [][\A r \in Slots :
       (Arrives(r) /\ req'[r].kind = "run"
          /\ (~req'[r].stepsIsArray \/ Len(req'[r].steps) \notin 1..15))
         => /\ sessions' = sessions /\ browsers' = browsers /\ genCount' = genCount
            /\ req'[r].pc = "done"
            /\ req'[r].status \in {400, 401}
            /\ (SECRET = NoSecret
                  \/ (req'[r].auth.prefix = "Bearer " /\ req'[r].auth.cred = SECRET))
                 => req'[r].status = 400]_vars

\* C5 happens: an oversized /run was answered 400 while a session is registered.
C5_Witness ==
  \E r \in Slots :
    /\ IsRun(r) /\ req[r].status = 400 /\ Len(req[r].steps) > 15
    /\ Registered # {}

\* C6: with a secret configured, a request to any of the five endpoints whose
\* bearer token is absent or differs from the secret is answered 401 and
\* leaves the registry and the engine untouched; with no secret configured no
\* request is answered 401.
C6_AuthGate ==
  [][\A r \in Slots :
       Arrives(r) =>
         LET q == req'[r]
             bearer == q.auth.prefix = "Bearer " /\ q.auth.cred = SECRET
         IN /\ q.kind \in {"run", "delete", "screenshot", "info", "interact"}
            /\ (SECRET # NoSecret /\ ~bearer) =>
                 /\ q.pc = "done" /\ q.status = 401
                 /\ sessions' = sessions /\ browsers' = browsers
                 /\ genCount' = genCount
            /\ (SECRET = NoSecret \/ bearer) => q.status # 401]_vars

\* C6 happens: an unauthorized DELETE of a registered session was answered 401
\* and the session is still there.
C6_Witness ==
  \E r \in Slots :
    /\ req[r].kind = "delete" /\ req[r].status = 401
    /\ Has(req[r].sid) /\ browsers[sessions[req[r].sid].browser].open

\* The overall success flag and the top-level error of an ended /run: those of
\* the JSON response, or of the last message of the stream.
Overall(r) ==
  IF req[r].stream /\ req[r].headersSent
  THEN req[r].out[Len(req[r].out)].success ELSE req[r].success
TopError(r) ==
  IF req[r].stream /\ req[r].headersSent
  THEN req[r].out[Len(req[r].out)].error ELSE req[r].respError
\* A step that lacks a field its action requires, or names a bad waitUntil.
C7_Invalid(st) ==
  /\ ~st.null
  /\ \/ st.action \in {"click", "fill"} /\ st.selector = Absent
     \/ st.action = "navigate"
          /\ st.waitUntil \notin {Absent, "domcontentloaded", "load", "networkidle"}
     \/ st.action = "wait" /\ st.delayType # "number" /\ st.selector = Absent
C7_Recorded ==
  \A r \in Slots :
    IsRun(r) =>
      /\ \A k \in 1..Len(req[r].results) :
           LET e == req[r].results[k] IN
           /\ e.success <=> e.error = Absent
           /\ C7_Invalid(req[r].steps[k]) => ~e.success
      /\ req[r].pc = "errshot" => req[r].error # Absent
      /\ (Ended(r) /\ req[r].status \notin {400, 401}) =>
           /\ Overall(r) <=> TopError(r) = Absent
           /\ Overall(r) <=> /\ req[r].resolvedSessionId # Absent
                             /\ \A k \in 1..Len(req[r].steps) : ~req[r].steps[k].null
           /\ Overall(r) => Len(req[r].results) = Len(req[r].steps)
C7_Continues ==
  \A r \in Slots :
    Len(req'[r].results) = Len(req[r].results) + 1 =>
      LET e == req'[r].results[Len(req'[r].results)]
          n == Len(req[r].steps)
      IN /\ e.stepIndex = req[r].i
         /\ req[r].pc = "errshot" => (~e.success /\ e.error = req[r].error)
         /\ req[r].pc = "shot" => e.success
         /\ req'[r].i = req[r].i + 1
         /\ IF req'[r].i < n
            THEN \/ req'[r].pc \in {"act", "delay", "shot", "errshot"}
                 \/ req[r].steps[req'[r].i + 1].null /\ req'[r].pc = "done"
            ELSE req'[r].pc = "done" /\ Overall(r)'

\* C7: in a /run, a failed step (a missing selector, a bad waitUntil, a wait
\* with neither delay nor selector, an engine error) is recorded as that step's
\* result with success false and its error message, the loop goes on to the
\* next step, and the overall success flag is true exactly when no error
\* escaped the loop or the session resolution, whatever the steps' own flags.
C7_StepFailuresAreLocal == []C7_Recorded /\ [][C7_Continues]_vars

\* C7 happens: a two-step run whose first step failed and whose second step
\* succeeded, answered with overall success.
C7_Witness ==
  \E r \in Slots :
    /\ IsRun(r) /\ Ended(r) /\ ~req[r].stream /\ req[r].success
    /\ Len(req[r].results) = 2
    /\ ~req[r].results[1].success /\ req[r].results[2].success

\* C8: in streaming mode, once the headers are sent, exactly one 'done' message
\* is written and it is the last message of the stream, on the success path
\* and on the top-level error path; before the run ends there is none.
C8_OneTerminalDone ==
  \A r \in Slots :
    (IsRun(r) /\ req[r].stream /\ req[r].headersSent) =>
      LET dones == {k \in 1..Len(req[r].out) : req[r].out[k].type = "done"} IN
      IF Ended(r) THEN dones = {Len(req[r].out)} /\ Len(req[r].out) >= 1 /\ req[r].ended
      ELSE dones = {} /\ ~req[r].ended

\* C8 happens: a stream that carried one step message and then a 'done' with
\* success false (an error escaped the loop at the second step).
C8_Witness ==
  \E r \in Slots :
    /\ IsRun(r) /\ req[r].stream /\ Ended(r) /\ Len(req[r].out) = 2
    /\ req[r].out[1].type = "step" /\ req[r].out[2].type = "done"
    /\ ~req[r].out[2].success

\* C9: a sweep removes every session idle for more than the TTL and closes its
\* browser; a /run naming an id that is not registered then creates a fresh
\* session under that id, and a direct-control call naming it is answered 404.
C9_EvictedThenGone ==
  [][/\ cleanupExpiredSessions =>
          \A id \in SessionIds :
            (Has(id) /\ now - sessions[id].lastUsedAt > SESSION_TTL_MS)
              => (sessions'[id] = NoEntry /\ ~browsers'[sessions[id].browser].open)
     /\ \A r \in Slots :
          /\ (Arrives(r) /\ req'[r].kind = "run" /\ req'[r].sid # Absent
                /\ ~Has(req'[r].sid))
               => (req'[r].pc = "launch" /\ req'[r].newId = req'[r].sid)
          /\ (req[r].pc = "newpage" /\ req'[r].resolvedSessionId # Absent)
               => /\ sessions'[req[r].newId] =
                       [browser |-> req[r].page, lastUsedAt |-> now]
                  /\ browsers'[req[r].page].open
                  /\ browsers'[req[r].page].closes = 0
          /\ (Arrives(r) /\ req'[r].kind \in {"screenshot", "info", "interact"}
                /\ ~Has(req'[r].sid))
               => (req'[r].pc = "done" /\ req'[r].status = 404
                     /\ sessions' = sessions /\ browsers' = browsers)]_vars

\* C9 happens: s1 was created, evicted by a sweep (no DELETE was received) and
\* created again by a second /run, with a second browser.
C9_Witness ==
  /\ received = 2 /\ genCount = 0
  /\ IsRun(1) /\ req[1].resolvedSessionId = "s1"
  /\ Has("s1") /\ sessions["s1"].browser = 2
  /\ ~browsers[1].open /\ browsers[1].closes = 1 /\ browsers[2].open

\* C10: DELETE /session/:id always answers success and leaves the id absent;
\* on an id that is not registered it changes neither the registry nor any
\* browser, so a second close of the same id changes nothing.
C10_CloseIdempotent ==
  [][\A r \in Slots :
       (Arrives(r) /\ req'[r].kind = "delete") =>
         LET id == req'[r].sid IN
         /\ req'[r].pc = "done" /\ req'[r].status = 200 /\ req'[r].success
         /\ sessions'[id] = NoEntry
         /\ \A other \in SessionIds \ {id} : sessions'[other] = sessions[other]
         /\ ~Has(id) => (sessions' = sessions /\ browsers' = browsers)]_vars

\* C10 happens: DELETE of s1, which was never created (the only browser ever
\* launched is the one of g1), answered success and g1 is still registered.
C10_Witness ==
  \E r \in Slots :
    /\ req[r].kind = "delete" /\ req[r].sid = "s1" /\ req[r].status = 200
    /\ Registered = {"g1"} /\ Len(browsers) = 1 /\ browsers[1].open

\* C11: every operation that finds an existing session refreshes its
\* lastUsedAt to the current time: a /run that reuses it, and each
\* direct-control call (GET screenshot, GET info, POST interact).
C11_TouchRefreshes ==
  [][\A r \in Slots :
       (Arrives(r) /\ req'[r].kind \in {"run", "screenshot", "info", "interact"}
          /\ req'[r].status \notin {400, 401}
          /\ req'[r].sid # Absent /\ Has(req'[r].sid))
         => sessions'[req'[r].sid].lastUsedAt = now]_vars

\* C12: when a /run on session X has completed and the next /run names X while
\* X is still registered (no close, no eviction), the second run gets the same
\* browser/page handle, the page is in the state the first run left it in (only
\* an engine action of a request holding the page changes a page), no browser
\* is launched and the registry is unchanged.
C12_ReuseKeepsPage ==
  [][/\ \A r \in Slots :
          (Arrives(r) /\ req'[r].kind = "run" /\ req'[r].status \notin {400, 401}
             /\ IsRun(r) /\ Ended(r) /\ req[r].resolvedSessionId # Absent
             /\ req'[r].sid = req[r].resolvedSessionId
             /\ Has(req[r].resolvedSessionId))
            => /\ req'[r].page = req[r].page
               /\ req'[r].resolvedSessionId = req[r].resolvedSessionId
               /\ req'[r].pc # "launch"
               /\ browsers' = browsers
               /\ Registered' = Registered
     /\ \A h \in Handles :
          browsers'[h].url # browsers[h].url
            => \E r \in Slots : req[r].page = h /\ req[r].pc \in {"act", "iact"}]_vars

\* C12 happens: the second of two runs on s1 starts on the only browser ever
\* launched, whose page is where the first run navigated to.
C12_Witness ==
  /\ received = 2 /\ IsRun(1) /\ req[1].sid = "s1" /\ req[1].page = 1
  /\ Len(browsers) = 1 /\ browsers[1].url = "u1"
  /\ req[1].i = 0 /\ req[1].steps[1] = Plain(Absent) /\ req[1].pc = "shot"

\* The 'step' messages written to the stream so far, in order.
StepMsgs(r) == SelectSeq(req[r].out, LAMBDA m : m.type = "step")
\* The same request in the other delivery mode, at the same point of the run.
OtherMode(q) ==
  [q EXCEPT !.stream = ~q.stream, !.headersSent = ~q.stream,
            !.out = IF q.stream THEN <<>> ELSE q.results]

\* C13: streaming and buffered mode produce the same ordered step outcomes.
\* The results carry stepIndex 0, 1, 2 ... in order; the 'step' messages of a
\* stream are exactly the results so far, each written before the next step is
\* dispatched; the terminal message carries that same list; and at every point
\* of a run the next outcome appended is the same in the other mode.
C13_SameSequence ==
  \A r \in Slots :
    IsRun(r) =>
      LET q == req[r] IN
      /\ \A k \in 1..Len(q.results) : q.results[k].stepIndex = k - 1
      /\ (q.stream /\ q.headersSent) =>
           /\ StepMsgs(r) = q.results
           /\ \A k \in 1..Len(q.results) : q.out[k] = q.results[k]
           /\ q.pc \in {"act", "delay", "shot", "errshot"} => Len(StepMsgs(r)) = q.i
           /\ Ended(r) => q.out[Len(q.out)].steps = q.results
      /\ q.pc \in {"shot", "errshot"} =>
           /\ nextStep(OtherMode(q)).results = nextStep(q).results
           /\ nextStep(OtherMode(q)).pc = nextStep(q).pc
           /\ Len(nextStep(q).results) = Len(q.results) + 1

\* C13 happens: a stream of two step messages, the first a failed step, and a
\* terminal message whose steps are those two messages.
C13_Witness ==
  \E r \in Slots :
    /\ IsRun(r) /\ req[r].stream /\ Ended(r) /\ Len(req[r].out) = 3
    /\ req[r].out[1].type = "step" /\ ~req[r].out[1].success
    /\ req[r].out[2].type = "step" /\ req[r].out[2].stepIndex = 1
    /\ req[r].out[3].steps = <<req[r].out[1], req[r].out[2]>>

\* C14: the answer to a /run that got past validation always carries a defined
\* sessionId: in the JSON response, or in the terminal 'done' message of the
\* stream, on the success path and on the top-level-error path.
C14_AlwaysSessionId ==
  \A r \in Slots :
    (IsRun(r) /\ Ended(r) /\ req[r].status \notin {400, 401}) =>
      IF req[r].stream /\ req[r].headersSent
      THEN req[r].out[Len(req[r].out)].sessionId # Absent
      ELSE req[r].respSid # Absent

\* C15: a navigate step with no url, or with a waitUntil outside the closed
\* set, is a validation failure: no navigation is dispatched to the engine for
\* it and its result has success false.
C15_NavigateNeedsUrl ==
  \A r \in Slots :
    IsRun(r) =>
      LET bad(st) == /\ ~st.null /\ st.action = "navigate"
                     /\ \/ st.url = Absent
                        \/ st.waitUntil \notin {Absent, "domcontentloaded", "load", "networkidle"}
      IN /\ req[r].pc = "act" => ~bad(req[r].steps[req[r].i + 1])
         /\ \A k \in 1..Len(req[r].results) :
              bad(req[r].steps[k]) => ~req[r].results[k].success

\* C16: when the creation of a session fails (at launch, newContext or
\* newPage), the failing call adds no entry under any id, every entry of the
\* registry is unchanged, and the /run ends with a top-level error carrying an
\* empty steps list: a 500, or a 'done' message with success false.
C16_CreateFailureLeavesNoEntry ==
  [][\A r \in Slots :
       (req[r].pc \in {"launch", "context", "newpage"} /\ req'[r].pc = "done"
          /\ req'[r].resolvedSessionId = Absent)
         => LET q == req'[r] IN
            /\ sessions' = sessions
            /\ req[r].page # 0 =>
                 \A id \in SessionIds : sessions'[id].browser # req[r].page
            /\ q.results = <<>>
            /\ IF q.stream /\ q.headersSent
               THEN LET m == q.out[Len(q.out)] IN
                    /\ Len(q.out) = 1 /\ m.type = "done" /\ ~m.success
                    /\ m.error # Absent /\ m.steps = <<>>
               ELSE q.status = 500 /\ ~q.success /\ q.respError # Absent]_vars

\* C16 happens: with g1 registered, the creation of s1 failed after its browser
\* was launched; s1 has no entry and g1 is still registered.
C16_Witness ==
  \E r \in Slots :
    /\ IsRun(r) /\ Ended(r) /\ req[r].newId = "s1" /\ req[r].page = 2
    /\ req[r].resolvedSessionId = Absent /\ req[r].status = 500
    /\ Registered = {"g1"} /\ sessions["g1"].browser = 1

\* C17: over any sequence of DELETE requests and reaper sweeps, whenever a
\* session is removed from the registry browser.close() is invoked on its
\* handle then and only then: once per removed session, so no browser is
\* closed twice and none is removed without being closed.
C17_ClosedExactlyOnce ==
  /\ [](\A h \in Handles :
          browsers[h].closes <= 1 /\ (browsers[h].open <=> browsers[h].closes = 0))
  /\ [][/\ \A id \in SessionIds :
             (Has(id) /\ sessions'[id] = NoEntry)
               => /\ browsers[sessions[id].browser].closes = 0
                  /\ browsers'[sessions[id].browser].closes = 1
        /\ \A h \in Handles :
             browsers'[h].closes # browsers[h].closes
               => \E id \in SessionIds :
                    Has(id) /\ sessions[id].browser = h /\ sessions'[id] = NoEntry]_vars

\* C17 happens: two sessions have been removed, the last request being a
\* DELETE and the reaper having swept, and each browser was closed once.
C17_Witness ==
  /\ Len(browsers) = 2 /\ browsers[1].closes = 1 /\ browsers[2].closes = 1
  /\ Registered = {} /\ sweptAt >= 0
  /\ req[1].kind = "delete" /\ req[1].status = 200

\* The body names a known action and gives the fields it requires, well typed.
C18_Complete(b) ==
  CASE b.action \in {"click", "scroll"} -> b.x = "number" /\ b.y = "number"
    [] b.action = "type" -> b.text = "string"
    [] b.action = "key" -> b.key = "string"
    [] b.action = "navigate" -> b.urlType = "string"
    [] OTHER -> FALSE

\* C18: POST /session/:id/interact on an unknown id is answered 404 whatever
\* the body; on an existing session, an unknown action or a missing or
\* ill-typed required field is answered 400, not 404, and the call ends
\* without any engine action or screenshot; a complete body is dispatched.
C18_InteractValidation ==
  [][\A r \in Slots :
       (Arrives(r) /\ req'[r].kind = "interact" /\ req'[r].status # 401) =>
         LET q == req'[r] IN
         /\ ~Has(q.sid) =>
              /\ q.pc = "done" /\ q.status = 404 /\ q.respError = "Session not found"
              /\ sessions' = sessions /\ browsers' = browsers
         /\ (Has(q.sid) /\ ~C18_Complete(q.body)) =>
              /\ q.pc = "done" /\ q.status = 400 /\ ~q.success
              /\ q.respError # "Session not found"
              /\ q.page = 0 /\ ~q.shot /\ browsers' = browsers
         /\ (Has(q.sid) /\ C18_Complete(q.body)) =>
              q.pc = "iact" /\ q.page = sessions[q.sid].browser]_vars

\* C18 happens: a click with x and no y on a registered session was answered
\* 400 and the page is untouched.
C18_Witness ==
  \E r \in Slots :
    /\ req[r].kind = "interact" /\ req[r].status = 400
    /\ req[r].body.action = "click" /\ req[r].body.x = "number" /\ req[r].body.y = Absent
    /\ Has(req[r].sid) /\ browsers[sessions[req[r].sid].browser].open

\* A streaming run whose client is gone has ended: it ran every step, its last
\* message is a 'done' with success true, and its session is still registered
\* with the same page.
C19_Completed ==
  \A r \in Slots :
    (IsRun(r) /\ req[r].gone /\ Ended(r) /\ req[r].resolvedSessionId # Absent) =>
      /\ Len(req[r].results) = Len(req[r].steps)
      /\ \A k \in 1..Len(req[r].results) : req[r].results[k].stepIndex = k - 1
      /\ req[r].out[Len(req[r].out)].type = "done"
      /\ req[r].out[Len(req[r].out)].success
      /\ req[r].out[Len(req[r].out)].error = Absent
      /\ Has(req[r].resolvedSessionId)
      /\ sessions[req[r].resolvedSessionId].browser = req[r].page
\* The disconnection changes nothing of the run, and the run goes on after it:
\* no step is skipped and no session is removed.
C19_GoesOn ==
  \A r \in Slots :
    /\ (~req[r].gone /\ req'[r].gone) =>
         /\ req'[r] = [req[r] EXCEPT !.gone = TRUE]
         /\ sessions' = sessions /\ browsers' = browsers
    /\ (req[r].gone /\ InFlight(r)) =>
         /\ req'[r].gone /\ req'[r].steps = req[r].steps
         /\ req'[r].i \in {req[r].i, req[r].i + 1}
         /\ Len(req'[r].results) = req'[r].i \/ req'[r].resolvedSessionId = Absent
         /\ Registered \subseteq {id \in SessionIds : sessions'[id].browser # 0}

\* C19: when the client of a streaming /run disconnects, the run is not
\* cancelled: the remaining steps are executed in order, the results reach N
\* entries, no top-level error comes of writing to the dead stream, the run
\* ends, and its session is registered afterwards.
C19_DisconnectDoesNotCancel ==
  /\ []C19_Completed
  /\ [][C19_GoesOn]_vars
  /\ \A r \in Slots : (req[r].gone /\ InFlight(r)) ~> (req[r].gone /\ Ended(r))

\* C19 happens: a two-step streaming run whose client went away has ended with
\* both results.
C19_Witness ==
  \E r \in Slots :
    /\ IsRun(r) /\ req[r].gone /\ Ended(r) /\ Len(req[r].steps) = 2
    /\ Len(req[r].results) = 2 /\ Len(req[r].out) = 3

\* C20: when a step has failed and the follow-up screenshot returns, failed or
\* not, the step's result keeps the step's own error message with success
\* false; when the screenshot failed too its error is swallowed and the
\* artifact is null; the run goes on to the next step, or ends with overall
\* success after the last one, with no top-level error.
C20_CaptureIsBestEffort ==
  [][\A r \in Slots :
       (req[r].pc = "errshot" /\ req'[r] # req[r]) =>
         /\ Len(req'[r].results) = Len(req[r].results) + 1
         /\ LET e == req'[r].results[Len(req'[r].results)]
                n == Len(req[r].steps)
            IN /\ req[r].error # Absent
               /\ e.error = req[r].error /\ ~e.success /\ e.stepIndex = req[r].i
               /\ e.screenshot => browsers[req[r].page].open
               /\ req'[r].i = req[r].i + 1
               /\ IF req'[r].i < n
                  THEN \/ req'[r].pc \in {"act", "delay", "shot", "errshot"}
                       \/ req[r].steps[req'[r].i + 1].null
                  ELSE /\ req'[r].pc = "done" /\ req'[r].status = 200
                       /\ Overall(r)' /\ TopError(r)' = Absent]_vars

\* C20 happens: the first step failed on a missing selector and its screenshot
\* failed too (null artifact); the second step succeeded and the run ended
\* with overall success.
C20_Witness ==
  \E r \in Slots :
    /\ IsRun(r) /\ Ended(r) /\ req[r].status = 200 /\ Len(req[r].results) = 2
    /\ req[r].results[1].error = "selector required for click"
    /\ ~req[r].results[1].screenshot /\ ~req[r].results[1].success
    /\ req[r].results[2].success /\ req[r].results[2].screenshot

\* The page a /run holds has been closed under it.
C21_Closed(r) ==
  IsRun(r) /\ req[r].resolvedSessionId # Absent /\ ~browsers[req[r].page].open
\* A run whose page is closed has ended: N results, overall success, and its
\* id is absent unless it is registered with another browser.
C21_Ended ==
  \A r \in Slots :
    (C21_Closed(r) /\ Ended(r)
       /\ \A k \in 1..Len(req[r].steps) : ~req[r].steps[k].null) =>
      /\ Len(req[r].results) = Len(req[r].steps)
      /\ req[r].status = 200 /\ req[r].success /\ req[r].respError = Absent
      /\ sessions[req[r].resolvedSessionId].browser # req[r].page
\* A step of a run whose page is closed: the run keeps its page, launches and
\* registers nothing, and the result it records is a failure with no artifact.
C21_Step ==
  \A r \in Slots :
    (C21_Closed(r) /\ InFlight(r) /\ req'[r] # req[r]) =>
      /\ req'[r].page = req[r].page
      /\ req'[r].resolvedSessionId = req[r].resolvedSessionId
      /\ req'[r].pc \notin {"launch", "context", "newpage"}
      /\ sessions' = sessions /\ browsers' = browsers
      /\ Len(req'[r].results) = Len(req[r].results) + 1 =>
           LET e == req'[r].results[Len(req'[r].results)] IN
           ~e.success /\ ~e.screenshot /\ e.error # Absent

\* C21: a /run resolves its page once. When its session is closed, by DELETE or
\* by the reaper, while it is in flight, the run neither creates nor registers
\* a session again, every remaining step is run against the closed handle and
\* recorded as failed, the run answers N results with overall success, and its
\* id is absent from the registry at the end unless another request created it.
C21_ClosedUnderRun == []C21_Ended /\ [][C21_Step]_vars

\* C21 happens: the only request received is a two-step run; the reaper closed
\* its session after the first step, the second step failed, and the run
\* answered success with s1 absent.
C21_Witness ==
  /\ received = 1 /\ IsRun(1) /\ Ended(1) /\ req[1].success
  /\ Len(req[1].results) = 2
  /\ req[1].results[1].success /\ ~req[1].results[2].success
  /\ ~browsers[1].open /\ ~Has("s1")

\* C22: a reaper sweep changes nothing for a session idle for at most the TTL
\* (exactly the TTL included): its entry keeps its handle and its lastUsedAt,
\* its browser stays open and unclosed, and the sweep adds no entry and
\* launches no browser.
C22_SweepSparesFresh ==
  [][cleanupExpiredSessions =>
       /\ \A id \in SessionIds :
            /\ (Has(id) /\ now - sessions[id].lastUsedAt <= SESSION_TTL_MS) =>
                 /\ sessions'[id] = sessions[id]
                 /\ browsers'[sessions[id].browser] = browsers[sessions[id].browser]
                 /\ browsers'[sessions[id].browser].open
            /\ ~Has(id) => sessions'[id] = NoEntry
       /\ Len(browsers') = Len(browsers)]_vars

\* C22 happens: a sweep has just run, a session idle for exactly the TTL is
\* still registered with its browser open, and another browser is closed.
C22_Witness ==
  /\ sweptAt = now
  /\ \E id \in SessionIds :
       /\ Has(id) /\ now - sessions[id].lastUsedAt = SESSION_TTL_MS
       /\ browsers[sessions[id].browser].open
  /\ \E h \in Handles : ~browsers[h].open

\* C23: once DELETE /session/X has answered success, X is absent from the
\* registry until a request received after that DELETE creates it: the DELETE
\* leaves X absent, and no /run received before it registers X afterwards.
C23_DeletedStaysAbsent ==
  [][\A r \in Slots :
       /\ (Arrives(r) /\ req'[r].kind = "delete" /\ req'[r].status = 200)
            => sessions'[req'[r].sid] = NoEntry
       /\ (req[r].pc = "newpage" /\ req'[r].resolvedSessionId # Absent)
            => \A d \in Slots :
                 (req[d].kind = "delete" /\ req[d].status = 200
                    /\ req[d].sid = req[r].newId)
                   => req[r].seq > req[d].seq]_vars
====
